---- MODULE Spec2Model ----
(***************************************************************************)
(* pandera/schema_model.py: compilation of a SchemaModel class into a      *)
(* DataFrameSchema.                                                        *)
(*                                                                         *)
(* A class hierarchy  SchemaModel <- P <- C  is declared (class bodies are *)
(* drawn from bounded pools), and to_schema is called on P and C in any    *)
(* order.  The state is what the calls read and write: every class's       *)
(* __annotations__ dict (emptied in place by _get_field_annotations), the  *)
(* __schema__ attribute of every class, and the result of the last call.   *)
(* Field(...) is modelled as an operator and, in SpecField, as a call.     *)
(*                                                                         *)
(* Strings are sequences of one-character strings, so that                 *)
(* str.startswith and re.match are computed and not assumed.               *)
(***************************************************************************)
EXTENDS Integers, Sequences, FiniteSets, TLC

VARIABLES
    decl,            \* class bodies as written: annotations, attributes, methods
    ann,             \* the __annotations__ dict of every class (mutable)
    inherited,       \* does cls.__annotations__ fall back to a base's dict
    schema,          \* the __schema__ entry of every class's own __dict__
    nextId,          \* identity of the next DataFrameSchema object
    last,            \* the last to_schema call and its outcome
    history,         \* per class: was to_schema called, and what it first returned
    field            \* the last Field(...) call and the FieldInfo it returned

vars == <<decl, ann, inherited, schema, nextId, last, history, field>>

----------------------------------------------------------------------------
(* Bounds *)

\* own annotated members of the base class P
MaxOwnFields == 2
\* field names / patterns given to one validator(...)
MaxValidatorFields == 2
\* constraint parameters given to one Field(...) call
MaxConstraints == 2

----------------------------------------------------------------------------
(* Python values *)

PyNone == [t |-> "None"]
PyInt(n) == [t |-> "int", v |-> n]
PyDict(lo, hi) == [t |-> "dict", min_value |-> lo, max_value |-> hi]

\* bool(value): FieldInfo defines neither __bool__ nor __len__
Truthy(v) ==
    CASE v.t = "None" -> FALSE
      [] v.t = "int" -> v.v # 0
      [] OTHER -> TRUE

\* str.startswith("_")
StartsWithUnderscore(name) == Len(name) > 0 /\ name[1] = "_"

\* one pattern character against one character; "." matches any character
CharMatch(pc, c) == pc = "." \/ pc = c

\* re.compile(regex).match(s): the pattern is matched from the start of s and
\* need not reach its end.  Regex syntax covered: literals, ".", postfix "*".
RECURSIVE ReMatch(_, _)
ReMatch(p, s) ==
    IF p = <<>> THEN TRUE
    ELSE IF Len(p) >= 2 /\ p[2] = "*"
         THEN \/ ReMatch(Tail(Tail(p)), s)
              \/ (s # <<>> /\ CharMatch(p[1], s[1]) /\ ReMatch(p, Tail(s)))
         ELSE s # <<>> /\ CharMatch(p[1], s[1]) /\ ReMatch(Tail(p), Tail(s))

\* _regex_filter with pattern.search in place of pattern.match: the pattern may
\* start anywhere in the item
_regex_filter_search(seq, regexps) ==
    {s \in seq : \E regex \in regexps, i \in 0..Len(s) :
                    ReMatch(regex, SubSeq(s, i + 1, Len(s)))}

\* _regex_filter(seq, regexps)
_regex_filter(seq, regexps) ==
    {s \in seq : \E regex \in regexps : ReMatch(regex, s)}

----------------------------------------------------------------------------
(* Ordered dicts: sequences of [name, value] with unique names *)

Keys(d) == {d[i].name : i \in 1..Len(d)}
KeyList(d) == [i \in 1..Len(d) |-> d[i].name]
Get(d, k) == (CHOOSE i \in 1..Len(d) : d[i].name = k)
Lookup(d, k) == d[Get(d, k)].value

\* d[k] = v: an existing key keeps its position
DictSet(d, k, v) ==
    IF k \in Keys(d)
    THEN [i \in 1..Len(d) |-> IF d[i].name = k THEN [name |-> k, value |-> v] ELSE d[i]]
    ELSE Append(d, [name |-> k, value |-> v])

\* d.update(e)
RECURSIVE DictUpdate(_, _)
DictUpdate(d, e) ==
    IF e = <<>> THEN d
    ELSE DictUpdate(DictSet(d, Head(e).name, Head(e).value), Tail(e))

\* d.pop(k, None) for every k in ks
DictPopAll(d, ks) == SelectSeq(d, LAMBDA m : m.name \notin ks)

----------------------------------------------------------------------------
(* The class hierarchy *)

Classes == {"P", "C"}
SchemaModel == "SchemaModel"

\* inspect.getmro(cls) without the trailing `object`
FullMro(cls) == IF cls = "C" THEN <<"C", "P", SchemaModel>>
                ELSE IF cls = "P" THEN <<"P", SchemaModel>>
                ELSE <<SchemaModel>>

\* inspect.getmro(cls)[:-2]
Bases(cls) == SubSeq(FullMro(cls), 1, Len(FullMro(cls)) - 1)

Reversed(s) == [i \in 1..Len(s) |-> s[Len(s) + 1 - i]]

\* "__schema__", annotated and set to None in the body of SchemaModel
SchemaKey == <<"_", "_", "s", "c", "h", "e", "m", "a", "_", "_">>

----------------------------------------------------------------------------
(* Annotations and class bodies *)

\* Series[dtype], Index[dtype], List[dtype], each possibly inside Optional[...]
Annotation(kind, dtype, optional) ==
    [kind |-> kind, dtype |-> dtype, optional |-> optional]

\* a member of a class body that carries no annotation
NoAnn == Annotation("unannotated", "", FALSE)
\* a member of a class body that is annotated and assigned no value
NoVal == [t |-> "absent"]

\* typing_inspect.is_optional_type
is_optional_type(annotation) == annotation.optional

\* get_first_arg(annotation): Optional[X] -> X, Series[T] -> T
get_first_arg(annotation) ==
    IF annotation.optional THEN [annotation EXCEPT !.optional = FALSE]
    ELSE annotation.dtype

\* typing_inspect.get_origin
get_origin(annotation) == annotation.kind

\* the annotated members of a class body, in declaration order
OwnAnnotations(body) ==
    LET annotated == SelectSeq(body, LAMBDA m : m.ann # NoAnn)
    IN [i \in 1..Len(annotated) |->
            [name |-> annotated[i].name, value |-> annotated[i].ann]]

\* the names a class body binds to a value
OwnAttributes(body) == {body[i].name : i \in {j \in 1..Len(body) : body[j].val # NoVal}}

OwnValue(body, name) ==
    body[CHOOSE i \in 1..Len(body) : body[i].name = name /\ body[i].val # NoVal].val

\* getattr(cls, name, None) for a field name: the first class of the mro that binds it
RECURSIVE GetAttrFrom(_, _, _)
GetAttrFrom(D, mro, name) ==
    IF mro = <<>> THEN PyNone
    ELSE IF name \in OwnAttributes(D[Head(mro)].body)
         THEN OwnValue(D[Head(mro)].body, name)
         ELSE GetAttrFrom(D, Tail(mro), name)

getattr(D, cls, name) == GetAttrFrom(D, Bases(cls), name)

\* names of inspect.getmembers(cls, lambda x: not inspect.isroutine(x)): the
\* attributes bound along the mro and SchemaModel.__schema__.  (The other
\* dunder members of a class are no field names of the pools below.)
Members(D, cls) ==
    UNION {OwnAttributes(D[Bases(cls)[i]].body) : i \in 1..Len(Bases(cls))}
        \cup {SchemaKey}

----------------------------------------------------------------------------
(* Annotation Collector *)

NoDict == [present |-> FALSE, d |-> <<>>]
Dict(d) == [present |-> TRUE, d |-> d]

\* the class whose __dict__ holds the dict that cls.__annotations__ evaluates to
RECURSIVE AnnotationsOwnerFrom(_, _)
AnnotationsOwnerFrom(A, mro) ==
    IF A[Head(mro)].present \/ Len(mro) = 1 THEN Head(mro)
    ELSE AnnotationsOwnerFrom(A, Tail(mro))

\* _get_field_annotations(cls)
_get_field_annotations(A, D, inh, cls) ==
    LET \* cls.__annotations__ of a class that has none: a base class's dict, or
        \* (newer interpreters) a fresh empty dict stored on cls
        A1 == IF ~A[cls].present /\ ~inh THEN [A EXCEPT ![cls] = Dict(<<>>)] ELSE A
        owner == AnnotationsOwnerFrom(A1, FullMro(cls))
        annotations == A1[owner].d
        protected == {n \in Members(D, cls) : StartsWithUnderscore(n)}
        kept == DictPopAll(annotations, protected)
    IN IF annotations = <<>>
       THEN [ann |-> A1, raised |-> TRUE, annotations |-> <<>>]
       ELSE [ann |-> [A1 EXCEPT ![owner] = Dict(kept)], raised |-> FALSE,
             annotations |-> kept]

RECURSIVE InheritLoop(_, _, _, _, _)
InheritLoop(A, D, inh, bases, annotations) ==
    IF bases = <<>>
    THEN [ann |-> A, raised |-> FALSE, annotations |-> annotations]
    ELSE LET r == _get_field_annotations(A, D, inh, Head(bases))
         IN IF r.raised
            THEN [ann |-> r.ann, raised |-> TRUE, annotations |-> <<>>]
            ELSE InheritLoop(r.ann, D, inh, Tail(bases),
                             DictUpdate(annotations, r.annotations))

\* SchemaModel._inherit_field_annotations
_inherit_field_annotations(A, D, inh, cls) ==
    InheritLoop(A, D, inh, Reversed(Bases(cls)), <<>>)

----------------------------------------------------------------------------
(* Field Descriptor and Field Constructor *)

PyList(items) == [t |-> "list", items |-> items]

\* a Check object: the factory that built it and the arguments it was given
Check(factory, call, arg, kwargs) ==
    [t |-> "Check", factory |-> factory, call |-> call, arg |-> arg, kwargs |-> kwargs]

\* _to_checklist(checks)
_to_checklist(checks) ==
    IF checks.t = "None" \/ (checks.t = "list" /\ checks.items = <<>>) THEN <<>>
    ELSE IF checks.t = "Check" THEN <<checks>>
    ELSE checks.items

\* FieldInfo.__init__
FieldInfo(checks, nullable, allow_duplicates, coerce, regex) ==
    [t |-> "FieldInfo", checks |-> _to_checklist(checks), nullable |-> nullable,
     allow_duplicates |-> allow_duplicates, coerce |-> coerce, regex |-> regex]

\* _check_dispatch, in the order of the dict literal
_check_dispatch ==
    << [arg |-> "eq", factory |-> "equal_to"],
       [arg |-> "neq", factory |-> "not_equal_to"],
       [arg |-> "gt", factory |-> "greater_than"],
       [arg |-> "ge", factory |-> "greater_than_or_equal_to"],
       [arg |-> "lt", factory |-> "less_than"],
       [arg |-> "le", factory |-> "less_than_or_equal_to"],
       [arg |-> "in_range", factory |-> "in_range"],
       [arg |-> "isin", factory |-> "isin"],
       [arg |-> "notin", factory |-> "notin"],
       [arg |-> "str_contains", factory |-> "str_contains"],
       [arg |-> "str_endswith", factory |-> "str_endswith"],
       [arg |-> "str_matches", factory |-> "str_matches"],
       [arg |-> "str_length", factory |-> "str_length"],
       [arg |-> "str_startswith", factory |-> "str_startswith"] >>

ConstraintNames == {_check_dispatch[i].arg : i \in 1..Len(_check_dispatch)}

\* the parameters of Field that take a dict and spread it over the factory
DictArgs == {"in_range", "str_length"}

\* the loop of Field with `if not arg_value` in place of `if arg_value is None`
RECURSIVE FieldChecks_falsy(_, _, _)
FieldChecks_falsy(args, check_kwargs, i) ==
    IF i > Len(_check_dispatch) THEN <<>>
    ELSE LET arg_name == _check_dispatch[i].arg
             arg_value == args[arg_name]
             rest == FieldChecks_falsy(args, check_kwargs, i + 1)
         IN IF ~Truthy(arg_value) THEN rest
            ELSE <<Check(_check_dispatch[i].factory,
                         IF arg_name \in DictArgs THEN "keywords" ELSE "positional",
                         arg_value, check_kwargs)>> \o rest

\* the loop of Field over _check_dispatch.items(), from entry i on
RECURSIVE FieldChecks(_, _, _)
FieldChecks(args, check_kwargs, i) ==
    IF i > Len(_check_dispatch) THEN <<>>
    ELSE LET arg_name == _check_dispatch[i].arg
             arg_value == args[arg_name]
             rest == FieldChecks(args, check_kwargs, i + 1)
         IN IF arg_value = PyNone THEN rest
            ELSE IF arg_name \in DictArgs
                 THEN <<Check(_check_dispatch[i].factory, "keywords", arg_value,
                              check_kwargs)>> \o rest
                 ELSE <<Check(_check_dispatch[i].factory, "positional", arg_value,
                              check_kwargs)>> \o rest

\* Field(**kw); kw holds every parameter of the signature
Field(kw) ==
    LET check_kwargs == [ignore_na |-> kw.ignore_na,
                         raise_warning |-> kw.raise_warning,
                         n_failure_cases |-> kw.n_failure_cases]
        checks == FieldChecks(kw.args, check_kwargs, 1)
    IN FieldInfo(IF checks # <<>> THEN PyList(checks) ELSE PyNone,
                 kw.nullable, kw.allow_duplicates, kw.coerce, kw.regex)

\* the defaults of the signature of Field
FieldDefaults ==
    [args |-> [a \in ConstraintNames |-> PyNone],
     nullable |-> FALSE, allow_duplicates |-> TRUE, coerce |-> FALSE, regex |-> FALSE,
     ignore_na |-> TRUE, raise_warning |-> FALSE, n_failure_cases |-> 10]

----------------------------------------------------------------------------
(* Schema components *)

\* the name of an index whose _name is None
NoName == <<>>

\* schema_components.Column(dtype, checks=, nullable=, allow_duplicates=, coerce=,
\* required=, name=, regex=)
Column(dtype, checks, nullable, allow_duplicates, coerce, regex, required, name) ==
    [name |-> name, dtype |-> dtype, checks |-> checks, nullable |-> nullable,
     allow_duplicates |-> allow_duplicates, coerce |-> coerce, regex |-> regex,
     required |-> required]

\* schema_components.Index(dtype, checks=, nullable=, allow_duplicates=, coerce=, name=)
Index(dtype, checks, nullable, allow_duplicates, coerce, name) ==
    [name |-> name, dtype |-> dtype, checks |-> checks, nullable |-> nullable,
     allow_duplicates |-> allow_duplicates, coerce |-> coerce]

\* Column(dtype, required=, checks=, name=) with the defaults of its signature
BareColumn(dtype, required, checks, name) ==
    Column(dtype, checks, FALSE, TRUE, FALSE, FALSE, required, name)

\* Index(dtype, checks=, name=) with the defaults of its signature
BareIndex(dtype, checks, name) ==
    Index(dtype, checks, FALSE, TRUE, FALSE, name)

\* to_column that does not pass `required` on: Column's default, True, applies
to_column_required_default(self, pandas_dtype, checks, required, name) ==
    Column(pandas_dtype, self.checks \o _to_checklist(PyList(checks)),
           self.nullable, self.allow_duplicates, self.coerce, self.regex,
           TRUE, name)

\* FieldInfo.to_column, through FieldInfo._to_schema_component
to_column(self, pandas_dtype, checks, required, name) ==
    Column(pandas_dtype, self.checks \o _to_checklist(PyList(checks)),
           self.nullable, self.allow_duplicates, self.coerce, self.regex,
           required, name)

\* FieldInfo.to_index, through FieldInfo._to_schema_component
to_index(self, pandas_dtype, checks, name) ==
    Index(pandas_dtype, self.checks \o _to_checklist(PyList(checks)),
          self.nullable, self.allow_duplicates, self.coerce, name)

NoIndex == [t |-> "None", indexes |-> <<>>]

\* _build_schema_index without `index._name = None`
_build_schema_index_named(indexes) ==
    IF indexes = <<>> THEN NoIndex
    ELSE IF Len(indexes) = 1
         THEN [t |-> "Index", indexes |-> indexes]
         ELSE [t |-> "MultiIndex", indexes |-> indexes]

\* _build_schema_index(indexes)
_build_schema_index(indexes) ==
    IF indexes = <<>> THEN NoIndex
    ELSE IF Len(indexes) = 1
         THEN [t |-> "Index", indexes |-> <<[indexes[1] EXCEPT !.name = NoName]>>]
         ELSE [t |-> "MultiIndex", indexes |-> indexes]

\* DataFrameSchema(columns, index=index); id is the identity of the object
DataFrameSchema(id, columns, index) == [id |-> id, columns |-> columns, index |-> index]

\* the value None of __schema__
None == DataFrameSchema(0, <<>>, NoIndex)

----------------------------------------------------------------------------
(* Validator Registration *)

\* validator(*fields, regex=regex)(check_fn): the _ValidatorConfig stored on
\* check_fn under _VALIDATOR_KEY; set(fields) drops repeated names
validator(fields, regex, check_fn) ==
    [fields |-> {fields[i] : i \in 1..Len(fields)}, regex |-> regex,
     check |-> Check("Check", "positional", check_fn, <<>>)]

\* method names, in the order inspect.getmembers sorts them
FnNames == <<"f", "g">>

OwnFns(D, cls) == {D[cls].fns[i].name : i \in 1..Len(D[cls].fns)}

\* the function object cls.<name>: defined by the first class of the mro that has it
RECURSIVE ResolveFn(_, _, _)
ResolveFn(D, mro, name) ==
    IF name \in OwnFns(D, Head(mro))
    THEN LET def == D[Head(mro)].fns[CHOOSE i \in 1..Len(D[Head(mro)].fns) :
                                         D[Head(mro)].fns[i].name = name]
         IN [name |-> name, decorated |-> def.decorated,
             config |-> validator(def.fields, def.regex,
                                  [t |-> "function", cls |-> Head(mro), name |-> name])]
    ELSE ResolveFn(D, Tail(mro), name)

\* inspect.getmembers(cls, inspect.isfunction)
Functions(D, cls) ==
    LET visible == SelectSeq(FnNames, LAMBDA n :
                        \E i \in 1..Len(Bases(cls)) : n \in OwnFns(D, Bases(cls)[i]))
    IN [i \in 1..Len(visible) |-> ResolveFn(D, Bases(cls), visible[i])]

EmptyChecks == [n \in {} |-> <<>>]

\* _update_checks(checks, fn, fields); `unknown` holds the fields the loop may
\* raise on (it raises on the first one the set iteration yields)
_update_checks(checks, fn, fields) ==
    IF ~fn.decorated THEN [raised |-> FALSE, unknown |-> {}, checks |-> checks]
    ELSE LET field_validator == fn.config
             matched == IF field_validator.regex
                        THEN _regex_filter(fields, field_validator.fields)
                        ELSE field_validator.fields
             unknown == {f \in matched : f \notin fields}
         IN IF unknown # {}
            THEN [raised |-> TRUE, unknown |-> unknown, checks |-> checks]
            ELSE [raised |-> FALSE, unknown |-> {},
                  checks |-> [n \in (DOMAIN checks) \cup matched |->
                                (IF n \in DOMAIN checks THEN checks[n] ELSE <<>>)
                                \o (IF n \in matched THEN <<field_validator.check>>
                                    ELSE <<>>)]]

\* the loop of to_schema over the functions of the class
RECURSIVE UpdateLoop(_, _, _)
UpdateLoop(checks, fns, fields) ==
    IF fns = <<>> THEN [raised |-> FALSE, fn |-> "", unknown |-> {}, checks |-> checks]
    ELSE LET r == _update_checks(checks, Head(fns), fields)
         IN IF r.raised
            THEN [raised |-> TRUE, fn |-> Head(fns).name, unknown |-> r.unknown,
                  checks |-> checks]
            ELSE UpdateLoop(r.checks, Tail(fns), fields)

----------------------------------------------------------------------------
(* Schema Compiler *)

\* the loop of _build_columns_index over annotations.items()
RECURSIVE BuildLoop(_, _, _, _, _, _)
BuildLoop(D, cls, checks, items, columns, indexes) ==
    IF items = <<>>
    THEN [raised |-> FALSE, error |-> "", name |-> NoName, columns |-> columns,
          index |-> _build_schema_index(indexes)]
    ELSE LET field_name == Head(items).name
             optional == is_optional_type(Head(items).value)
             annotation == IF optional THEN get_first_arg(Head(items).value)
                           ELSE Head(items).value
             schema_component == get_origin(annotation)
             dtype == get_first_arg(annotation)
             fld == getattr(D, cls, field_name)
             field_checks == IF field_name \in DOMAIN checks THEN checks[field_name]
                             ELSE <<>>
             fail(error) == [raised |-> TRUE, error |-> error, name |-> field_name,
                             columns |-> <<>>, index |-> NoIndex]
         IN IF Truthy(fld) /\ fld.t # "FieldInfo" THEN fail("not-a-Field")
            ELSE IF schema_component = "Series"
            THEN BuildLoop(D, cls, checks, Tail(items),
                     Append(columns,
                         IF Truthy(fld)
                         THEN to_column(fld, dtype, field_checks, ~optional, field_name)
                         ELSE BareColumn(dtype, ~optional, field_checks, field_name)),
                     indexes)
            ELSE IF schema_component = "Index"
            THEN IF optional THEN fail("optional-index")
                 ELSE BuildLoop(D, cls, checks, Tail(items), columns,
                          Append(indexes,
                              IF Truthy(fld)
                              THEN to_index(fld, dtype, field_checks, field_name)
                              ELSE BareIndex(dtype, field_checks, field_name)))
            ELSE fail("invalid-annotation")

\* SchemaModel._build_columns_index
_build_columns_index(D, cls, checks, annotations) ==
    BuildLoop(D, cls, checks, annotations, <<>>, <<>>)

\* cls.__schema__: the entry of the first class of the mro that has one, and the
\* None of SchemaModel otherwise.  (schema[k] = None stands for no entry in k.)
RECURSIVE GetSchemaFrom(_, _)
GetSchemaFrom(S, mro) ==
    IF mro = <<>> THEN None
    ELSE IF S[Head(mro)] # None THEN S[Head(mro)]
    ELSE GetSchemaFrom(S, Tail(mro))

GetSchema(S, cls) == GetSchemaFrom(S, Bases(cls))

\* the body of to_schema after the cache test, up to the assignment of __schema__
Compile(A, D, inh, cls) ==
    LET col == _inherit_field_annotations(A, D, inh, cls)
        upd == UpdateLoop(EmptyChecks, Functions(D, cls), Keys(col.annotations))
        built == _build_columns_index(D, cls, upd.checks, col.annotations)
        result(error, fn, unknown, name, annotations, checks, columns, index) ==
            [ann |-> col.ann, error |-> error, fn |-> fn, unknown |-> unknown,
             name |-> name, annotations |-> annotations, checks |-> checks,
             columns |-> columns, index |-> index]
    IN IF col.raised
       THEN result("not-annotated", "", {}, NoName, <<>>, EmptyChecks, <<>>, NoIndex)
       ELSE IF upd.raised
       THEN result("unknown-field", upd.fn, upd.unknown, NoName, col.annotations,
                   EmptyChecks, <<>>, NoIndex)
       ELSE IF built.raised
       THEN result(built.error, "", {}, built.name, col.annotations, upd.checks,
                   <<>>, NoIndex)
       ELSE result("", "", {}, NoName, col.annotations, upd.checks, built.columns,
                   built.index)

\* the record of one call: its outcome, the caches it found, and whether it
\* was the first call on cls
Call(cls, kind, r, name, ret) ==
    [cls |-> cls, kind |-> kind, error |-> r.error, fn |-> r.fn, name |-> name,
     annotations |-> r.annotations, checks |-> r.checks, ret |-> ret,
     before |-> schema, first |-> ~history[cls].called]

NoResult ==
    [ann |-> <<>>, error |-> "", fn |-> "", unknown |-> {}, name |-> NoName,
     annotations |-> <<>>, checks |-> EmptyChecks, columns |-> <<>>, index |-> NoIndex]

NoCall ==
    [cls |-> "", kind |-> "none", error |-> "", fn |-> "", name |-> NoName,
     annotations |-> <<>>, checks |-> EmptyChecks, ret |-> None,
     before |-> [k \in Classes |-> None], first |-> FALSE]

\* __schema__ assigned before _build_columns_index has returned
Assigned_early(S, cls, r, made) == [S EXCEPT ![cls] = made]

\* __schema__ of the classes after lines 147-148: an exception of
\* _build_columns_index (or of anything before it) leaves the assignment undone
Assigned(S, cls, r, made) ==
    IF r.error = "" THEN [S EXCEPT ![cls] = made] ELSE S

\* SchemaModel.to_schema
to_schema(cls) ==
    LET found == GetSchema(schema, cls)
        r == Compile(ann, decl, inherited, cls)
        made == DataFrameSchema(nextId, r.columns, r.index)
        returned(ret) ==
            history' = [history EXCEPT ![cls] =
                           [called |-> TRUE,
                            ret |-> IF @.ret = None THEN ret ELSE @.ret]]
    IN /\ IF found # None
          THEN /\ last' = Call(cls, "hit", NoResult, NoName, found)
               /\ returned(found)
               /\ UNCHANGED <<ann, schema, nextId>>
          ELSE /\ ann' = r.ann
               /\ schema' = Assigned(schema, cls, r, made)
               /\ IF r.error # ""
                  THEN /\ \E name \in (IF r.error = "unknown-field" THEN r.unknown
                                       ELSE {r.name}) :
                             last' = Call(cls, "error", r, name, None)
                       /\ returned(None)
                       /\ UNCHANGED nextId
                  ELSE /\ nextId' = nextId + 1
                       /\ last' = Call(cls, "compiled", r, NoName, made)
                       /\ returned(made)
       /\ UNCHANGED <<decl, inherited, field>>

----------------------------------------------------------------------------
(* Declarations the model is run on *)

NameA == <<"a">>
NameAB == <<"a", "b">>
NameX == <<"_", "x">>
Names == {NameA, NameAB, NameX}

Series(dtype) == Annotation("Series", dtype, FALSE)
IndexOf(dtype) == Annotation("Index", dtype, FALSE)
ListOf(dtype) == Annotation("List", dtype, FALSE)
Optional(annotation) == [annotation EXCEPT !.optional = TRUE]

\* Field(gt=0, nullable=True)
FieldGt0 == Field([FieldDefaults EXCEPT !.args.gt = PyInt(0), !.nullable = TRUE])

\* the members  name: ann = val  of a class body (at least one of ann, val given)
MemberPool(names, anns, vals) ==
    {m \in [name : names, ann : anns, val : vals] : m.ann # NoAnn \/ m.val # NoVal}

BodyNames(body) == {body[i].name : i \in 1..Len(body)}

\* the class bodies of at most k members, each name bound once
RECURSIVE Bodies(_, _)
Bodies(pool, k) ==
    IF k = 0 THEN {<<>>}
    ELSE LET shorter == Bodies(pool, k - 1)
         IN shorter \cup
            UNION {{Append(b, m) : m \in {x \in pool : x.name \notin BodyNames(b)}} :
                   b \in shorter}

\* the sequences over pool of length at most k
RECURSIVE SeqsUpTo(_, _)
SeqsUpTo(pool, k) ==
    IF k = 0 THEN {<<>>}
    ELSE LET shorter == SeqsUpTo(pool, k - 1)
         IN shorter \cup UNION {{Append(q, x) : x \in pool} : q \in shorter}

\* the __annotations__ entry a class body leaves in the class's __dict__
InitialDict(body) ==
    IF OwnAnnotations(body) = <<>> THEN NoDict ELSE Dict(OwnAnnotations(body))

\* SchemaModel's own body:  __schema__: Optional[DataFrameSchema] = None
SchemaModelDict ==
    Dict(<<[name |-> SchemaKey,
            value |-> Optional(Annotation("DataFrameSchema", "", FALSE))]>>)

NoField == [called |-> FALSE, kw |-> FieldDefaults, info |-> PyNone]

\* the state once the class bodies D have been executed; kw are the arguments
\* of a Field(...) call still to be made
Declared(D, inh, kw) ==
    /\ decl = D
    /\ ann = [k \in Classes \cup {SchemaModel} |->
                 IF k = SchemaModel THEN SchemaModelDict ELSE InitialDict(D[k].body)]
    /\ inherited = inh
    /\ schema = [k \in Classes |-> None]
    /\ nextId = 1
    /\ last = NoCall
    /\ history = [k \in Classes |-> [called |-> FALSE, ret |-> None]]
    /\ field = [NoField EXCEPT !.kw = kw]

Class(body, fns) == [body |-> body, fns |-> fns]

\* Spec.  Inheritance and caching: P and C declare and re-declare columns of
\* two dtypes, some protected, some bound to a Field, some declared wrongly;
\* a class may declare no annotation at all
InheritAnns == {NoAnn, Series("int"), Series("str"), Optional(IndexOf("int"))}
InheritVals == {NoVal, FieldGt0}

Init ==
    \E p \in Bodies(MemberPool(Names, InheritAnns, InheritVals), MaxOwnFields),
       c \in Bodies(MemberPool(Names, InheritAnns \ {Series("int")}, InheritVals), 1),
       inh \in BOOLEAN :
        Declared([k \in Classes |-> Class(IF k = "P" THEN p ELSE c, <<>>)],
                 inh, FieldDefaults)

\* SpecBuild.  Columns and indexes: every member of P is annotated, with
\* every shape of annotation, bare or bound to a Field; a value that is no
\* Field is looked at before the annotation's container is, so it is paired
\* with one annotation.  C adds an index; P may carry a validator of the field
\* C adds
BuildAnns == {Series("int"), Optional(Series("int")), IndexOf("int"),
              Optional(IndexOf("int")), ListOf("int")}
BuildMembers ==
    MemberPool(Names, BuildAnns, {NoVal, FieldGt0})
        \cup MemberPool(Names, {Series("int")}, {PyInt(5), PyInt(0)})

Method(name, decorated, fields, regex) ==
    [name |-> name, decorated |-> decorated, fields |-> fields, regex |-> regex]

InitBuild ==
    \E p \in Bodies(BuildMembers, MaxOwnFields) \ {<<>>},
       fns \in {<<>>, <<Method("f", TRUE, <<NameAB>>, FALSE)>>} :
        Declared([k \in Classes |->
                    IF k = "P" THEN Class(p, fns)
                    ELSE Class(<<[name |-> NameAB, ann |-> IndexOf("str"),
                                  val |-> NoVal]>>, <<>>)],
                 TRUE, FieldDefaults)

\* SpecValidator.  Validators: P declares columns and a method f decorated
\* with names or patterns; C adds the column ab and may override f or add g
Patterns == {<<"a">>, <<"a", "b">>, <<"b">>, <<"a", ".", "*">>, <<"A">>}

InitValidator ==
    \E p \in Bodies(MemberPool(Names, {Series("int")}, {NoVal}), MaxOwnFields) \ {<<>>},
       pf \in {<<>>, <<Method("f", FALSE, <<>>, FALSE)>>} \cup
              {<<Method("f", TRUE, fs, re)>> :
                   fs \in SeqsUpTo(Patterns, MaxValidatorFields), re \in BOOLEAN},
       cf \in {<<>>, <<Method("f", TRUE, <<NameA>>, FALSE)>>,
               <<Method("g", TRUE, <<NameAB>>, FALSE)>>,
               <<Method("g", TRUE, <<NameA>>, TRUE)>>} :
        Declared([k \in Classes |->
                    IF k = "P" THEN Class(p, pf)
                    ELSE Class(<<[name |-> NameAB, ann |-> Series("str"),
                                  val |-> NoVal]>>, cf)],
                 TRUE, FieldDefaults)

\* SpecField.  One call of Field with at most MaxConstraints constraints
ArgValues(arg_name) ==
    IF arg_name \in DictArgs THEN {PyDict(0, 1)} ELSE {PyInt(0), PyInt(1)}

FieldArgs ==
    UNION {{[a \in ConstraintNames |-> IF a \in S THEN g[a] ELSE PyNone] :
              g \in {h \in [S -> {PyInt(0), PyInt(1), PyDict(0, 1)}] :
                        \A a \in S : h[a] \in ArgValues(a)}} :
           S \in {T \in SUBSET ConstraintNames : Cardinality(T) <= MaxConstraints}}

FieldInputs ==
    {[args |-> args, nullable |-> f[1], allow_duplicates |-> f[2], coerce |-> f[3],
      regex |-> f[4], ignore_na |-> o[1], raise_warning |-> o[2],
      n_failure_cases |-> o[3]] :
        args \in FieldArgs, f \in BOOLEAN \X BOOLEAN \X BOOLEAN \X BOOLEAN,
        o \in {<<TRUE, FALSE, 10>>, <<FALSE, TRUE, 1>>}}

InitField ==
    \E kw \in FieldInputs :
        Declared([k \in Classes |->
                    Class(<<[name |-> NameA, ann |-> Series("int"), val |-> NoVal]>>,
                          <<>>)],
                 TRUE, kw)

\* the call Field(**field.kw)
call_Field ==
    /\ ~field.called
    /\ field' = [called |-> TRUE, kw |-> field.kw, info |-> Field(field.kw)]
    /\ UNCHANGED <<decl, ann, inherited, schema, nextId, last, history>>

Next == \E cls \in Classes : to_schema(cls)

NextField == call_Field

Spec == Init /\ [][Next]_vars
SpecBuild == InitBuild /\ [][Next]_vars
SpecValidator == InitValidator /\ [][Next]_vars
SpecField == InitField /\ [][NextField]_vars

----------------------------------------------------------------------------
(* Properties.  They are stated on `last`, the record of the call made last,
   and on the state that call left. *)

Compiled == last.kind = "compiled"

\* the call ran _build_columns_index
Built == Compiled \/ last.error \in {"not-a-Field", "optional-index", "invalid-annotation"}

IsRow(entry) == entry.value.kind = "Series"
IsIndex(entry) == entry.value.kind = "Index"

\* the entries of the annotation map the call collected
Entries == {last.annotations[i] : i \in 1..Len(last.annotations)}

Columns(sch) == {sch.columns[i] : i \in 1..Len(sch.columns)}
ColumnNames(sch) == [i \in 1..Len(sch.columns) |-> sch.columns[i].name]
IndexNames(sch) == [i \in 1..Len(sch.index.indexes) |-> sch.index.indexes[i].name]

\* the class binds the name to a value, in its own body or in a base's
HasAttr(cls, name) ==
    \E i \in 1..Len(Bases(cls)) :
        \E j \in 1..Len(decl[Bases(cls)[i]].body) :
            /\ decl[Bases(cls)[i]].body[j].name = name
            /\ decl[Bases(cls)[i]].body[j].val # NoVal

\* C5: an optional index-kind entry makes the compilation fail; the compilation
\* raises "Index cannot be Optional" on no other entry; and in a compiled schema
\* the column of every row-kind entry has required = not optional, whether it
\* was built bare or from a Field Descriptor.
C5_OptionalFields ==
    Built =>
        /\ (\E e \in Entries : IsIndex(e) /\ e.value.optional) => last.kind = "error"
        /\ last.error = "optional-index" =>
              \E e \in Entries : e.name = last.name /\ IsIndex(e) /\ e.value.optional
        /\ Compiled =>
              \A e \in Entries :
                  IsRow(e) => \E col \in Columns(last.ret) :
                                  /\ col.name = e.name
                                  /\ col.required = ~e.value.optional

\* C5 witness: a compiled schema holds an optional column built from a Field
\* Descriptor (nullable, one check) and a required column built bare.
C5_Witness ==
    /\ Compiled
    /\ \E col \in Columns(last.ret) :
          ~col.required /\ col.nullable /\ Len(col.checks) = 1
    /\ \E col \in Columns(last.ret) : col.required /\ ~col.nullable

\* C6: the index of a compiled schema follows the number n of index-kind
\* entries: none for n = 0; for n = 1 the single index, its name cleared; for
\* n >= 2 a MultiIndex of all of them in collection order under their field
\* names.  The columns are the row-kind entries, in collection order.
C6_IndexShape ==
    Compiled =>
        LET ix == SelectSeq(last.annotations, IsIndex)
            rows == SelectSeq(last.annotations, IsRow)
            index == last.ret.index
        IN /\ Len(ix) = 0 => index = NoIndex
           /\ Len(ix) = 1 => /\ index.t = "Index"
                             /\ Len(index.indexes) = 1
                             /\ index.indexes[1].name = NoName
                             /\ index.indexes[1].dtype = ix[1].value.dtype
           /\ Len(ix) >= 2 => /\ index.t = "MultiIndex"
                              /\ IndexNames(last.ret) = KeyList(ix)
                              /\ \A i \in 1..Len(ix) :
                                    index.indexes[i].dtype = ix[i].value.dtype
           /\ ColumnNames(last.ret) = KeyList(rows)
           /\ Len(ix) + Len(rows) = Len(last.annotations)

\* C6 witness: C compiles to a MultiIndex of three indexes, P's two and then
\* its own, next to a schema of P that already has a single unnamed index
\* or none.
C6_Witness ==
    /\ Compiled
    /\ last.cls = "C"
    /\ last.ret.index.t = "MultiIndex"
    /\ Len(last.ret.index.indexes) = 3
    /\ last.ret.index.indexes[3].name = NameAB

\* C7 (as claimed): a field whose name the class binds to a value that is no
\* Field Descriptor never compiles.
C7_NonFieldRejected ==
    Compiled =>
        \A e \in Entries :
            HasAttr(last.cls, e.name) => getattr(decl, last.cls, e.name).t = "FieldInfo"

\* C8: a call that ends in a declaration error returns nothing and leaves every
\* class's cache as it found it, the class's own cache empty; __schema__
\* changes only by a compilation that raised nothing, and then only on the
\* class called, to the object returned.
C8_NoCacheOnError ==
    /\ last.kind = "error" =>
          /\ last.ret = None
          /\ schema = last.before
          /\ schema[last.cls] = None
    /\ schema # last.before =>
          /\ Compiled
          /\ last.ret # None
          /\ schema = [last.before EXCEPT ![last.cls] = last.ret]

\* C8 witness: to_schema(P) raised on a validator of an unknown field while
\* C's schema was cached, and C's cache is as it was.
C8_Witness ==
    /\ last.kind = "error"
    /\ last.cls = "P"
    /\ last.error = "unknown-field"
    /\ schema["C"] # None
    /\ schema["P"] = None

----------------------------------------------------------------------------
(* Validators: what "matched from its start" means, stated without re *)

\* a pattern as a sequence of items: a character (or "." for any), starred or not
RECURSIVE Items(_)
Items(p) ==
    IF p = <<>> THEN <<>>
    ELSE IF Len(p) >= 2 /\ p[2] = "*"
         THEN <<[c |-> p[1], star |-> TRUE]>> \o Items(Tail(Tail(p)))
         ELSE <<[c |-> p[1], star |-> FALSE]>> \o Items(Tail(p))

\* some prefix of s splits into one block per item of p: one character for a
\* plain item, any number for a starred one, every character the item's own
\* (case-sensitively) unless the item is "."
MatchedFromStart(p, s) ==
    LET items == Items(p)
    IN \E cut \in [0..Len(items) -> 0..Len(s)] :
          /\ cut[0] = 0
          /\ \A i \in 1..Len(items) :
                /\ cut[i] >= cut[i - 1]
                /\ ~items[i].star => cut[i] = cut[i - 1] + 1
                /\ \A j \in (cut[i - 1] + 1)..cut[i] :
                      items[i].c = "." \/ items[i].c = s[j]

\* the validator bindings of the class called, in method-name order
Bindings == SelectSeq(Functions(decl, last.cls), LAMBDA f : f.decorated)

Known == Keys(last.annotations)

\* the fields a binding is meant for
Targets(f) ==
    IF f.config.regex
    THEN {k \in Known : \E p \in f.config.fields : MatchedFromStart(p, k)}
    ELSE f.config.fields

\* a literal binding that names a field the class does not have
Unbound(f) == ~f.config.regex /\ ~(f.config.fields \subseteq Known)

\* the call got as far as the validators
Scanned == last.kind \in {"compiled", "error"} /\ last.error # "not-annotated"

\* C4: a regex binding puts its check on exactly the known fields one of its
\* patterns matches from the start, a literal binding on exactly the fields it
\* names, each once and in method order; and the compilation fails, naming
\* the method and the field, exactly when a literal binding names an unknown
\* field.
C4_ValidatorBinding ==
    Scanned =>
        /\ (\E i \in 1..Len(Bindings) : Unbound(Bindings[i])) =>
              /\ last.kind = "error"
              /\ last.error = "unknown-field"
              /\ \E i \in 1..Len(Bindings) :
                    /\ Unbound(Bindings[i])
                    /\ Bindings[i].name = last.fn
                    /\ last.name \in Bindings[i].config.fields \ Known
        /\ (\A i \in 1..Len(Bindings) : ~Unbound(Bindings[i])) =>
              /\ last.error # "unknown-field"
              /\ \A k \in Known :
                    LET bound == SelectSeq(Bindings, LAMBDA f : k \in Targets(f))
                        expected == [i \in 1..Len(bound) |-> bound[i].config.check]
                    IN /\ IF k \in DOMAIN last.checks THEN last.checks[k] = expected
                          ELSE expected = <<>>
                       /\ Compiled =>
                             \E col \in Columns(last.ret) :
                                 col.name = k /\ col.checks = expected

\* C4 witness: C compiles with a regex binding and a second binding; one column
\* carries both checks, one carries one, one carries none.
C4_Witness ==
    /\ Compiled
    /\ last.cls = "C"
    /\ \E i \in 1..Len(Bindings) : Bindings[i].config.regex
    /\ \E col \in Columns(last.ret) : Len(col.checks) = 2
    /\ \E col \in Columns(last.ret) : Len(col.checks) = 1
    /\ \E col \in Columns(last.ret) : Len(col.checks) = 0

----------------------------------------------------------------------------
(* Caching and inheritance *)

\* the __annotations__ dicts as the class bodies left them
InitialAnnotations ==
    [k \in Classes \cup {SchemaModel} |->
        IF k = SchemaModel THEN SchemaModelDict ELSE InitialDict(decl[k].body)]

\* what compiling cls yields from its declaration alone
Own(cls) == Compile(InitialAnnotations, decl, inherited, cls)

\* a declaration with nothing unusual in it: every class annotates something
\* and no member has a protected name
Plain ==
    \A k \in Classes :
        /\ OwnAnnotations(decl[k].body) # <<>>
        /\ \A i \in 1..Len(decl[k].body) : ~StartsWithUnderscore(decl[k].body[i].name)

\* C1 (as claimed, for plain declarations): on a correctly declared class no
\* call fails and all calls return one object; the first call compiles it and
\* stores it on the class; every later call finds it on the class and changes
\* no cache.
C1_CompileOnceThenCached ==
    (last.kind # "none" /\ Plain /\ Own(last.cls).error = "") =>
        /\ last.kind # "error"
        /\ last.ret = history[last.cls].ret
        /\ last.first => Compiled /\ schema[last.cls] = last.ret
        /\ ~last.first => /\ last.kind = "hit"
                          /\ last.ret = last.before[last.cls]
                          /\ schema = last.before

\* C2 (as claimed, for plain declarations): whatever was called before,
\* to_schema(cls) returns the schema of cls's own declaration and never the
\* object cached for another class, and it raises when the declaration of cls
\* is in error.
C2_SchemaOfOwnDeclaration ==
    (last.kind # "none" /\ Plain) =>
        IF Own(last.cls).error = ""
        THEN /\ last.kind # "error"
             /\ last.ret.columns = Own(last.cls).columns
             /\ last.ret.index = Own(last.cls).index
             /\ \A k \in Classes \ {last.cls} : schema[k] # last.ret
        ELSE last.kind = "error"

\* C3 (as claimed): when C compiles, every field of C that P and C both
\* annotate, with different element types, maps to C's annotation and gives a
\* column of C's element type, and every field of P that C does not annotate is
\* kept as P has it.
C3_ChildAnnotationWins ==
    (Compiled /\ last.cls = "C") =>
        LET p == OwnAnnotations(decl["P"].body)
            c == OwnAnnotations(decl["C"].body)
        IN /\ \A n \in Keys(p) \cap Keys(c) \cap Known :
                 Lookup(p, n).dtype # Lookup(c, n).dtype =>
                     /\ Lookup(last.annotations, n) = Lookup(c, n)
                     /\ \E col \in Columns(last.ret) :
                           col.name = n /\ col.dtype = Lookup(c, n).dtype
           /\ \A n \in Keys(ann["P"].d) \ Keys(c) :
                 /\ n \in Known
                 /\ Lookup(last.annotations, n) = Lookup(ann["P"].d, n)

\* C10 (as claimed): no name that starts with "_" is in the annotation map of
\* a compilation, nor names a column or an index of the schema compiled.
C10_ProtectedNamesDropped ==
    Compiled =>
        /\ \A n \in Known : ~StartsWithUnderscore(n)
        /\ \A col \in Columns(last.ret) : ~StartsWithUnderscore(col.name)
        /\ \A i \in 1..Len(last.ret.index.indexes) :
              ~StartsWithUnderscore(last.ret.index.indexes[i].name)

----------------------------------------------------------------------------
(* Field Constructor *)

\* the place of a constraint parameter in _check_dispatch
Place(arg_name) ==
    CHOOSE i \in 1..Len(_check_dispatch) : _check_dispatch[i].arg = arg_name

\* C9: the descriptor Field returns holds one check per constraint parameter
\* that is not None, built by the parameter's factory of _check_dispatch, in
\* the order of _check_dispatch, each given the parameter's value and the same
\* three evaluation options; its flags are the ones passed; and a call with
\* no argument at all gives no check and the default flags.
C9_FieldChecks ==
    field.called =>
        LET kw == field.kw
            info == field.info
            supplied == {a \in ConstraintNames : kw.args[a] # PyNone}
            options == [ignore_na |-> kw.ignore_na, raise_warning |-> kw.raise_warning,
                        n_failure_cases |-> kw.n_failure_cases]
        IN /\ info.t = "FieldInfo"
           /\ Len(info.checks) = Cardinality(supplied)
           /\ \A a \in supplied :
                 LET check == info.checks[1 + Cardinality({b \in supplied :
                                                            Place(b) < Place(a)})]
                 IN /\ check.factory = _check_dispatch[Place(a)].factory
                    /\ check.arg = kw.args[a]
                    /\ check.kwargs = options
           /\ info.nullable = kw.nullable
           /\ info.allow_duplicates = kw.allow_duplicates
           /\ info.coerce = kw.coerce
           /\ info.regex = kw.regex
           /\ kw = FieldDefaults =>
                 /\ info.checks = <<>>
                 /\ ~info.nullable /\ info.allow_duplicates
                 /\ ~info.coerce /\ ~info.regex

\* C9 witness: Field(eq=0, str_length={...}) returned two checks, equal_to(0)
\* before str_length.
C9_Witness ==
    /\ field.called
    /\ Len(field.info.checks) = 2
    /\ field.info.checks[1].factory = "equal_to"
    /\ field.info.checks[1].arg = PyInt(0)
    /\ field.info.checks[2].factory = "str_length"
    /\ field.info.checks[2].call = "keywords"

====
